---- MODULE Spec2Model ----
(***************************************************************************)
(* A model of cgraph: a graph of textual contexts (root, branch, summary)  *)
(* kept as files under memory/ in a Git working copy.                      *)
(*                                                                         *)
(* Strings are sequences of one-character strings, so that the string      *)
(* operations of the code (split, strip, endswith, slugify, the ordering   *)
(* used by sort) are computed here as the code computes them.  A path is   *)
(* the string str(path), relative to the project directory.  A tree (the   *)
(* working copy, or the snapshot at a Git ref) is a function from the      *)
(* paths of its files to their contents; a directory exists when a file    *)
(* lies under it.  A JSON document is kept parsed: an object is a function *)
(* from its keys to its values.                                            *)
(***************************************************************************)
EXTENDS Integers, Sequences, FiniteSets, TLC

VARIABLES
    repo,    \* whether the project directory is a Git repository
    wc,      \* the working copy: path -> file, for the files under memory/
    head,    \* the tree committed at HEAD: path -> file
    now,     \* the wall clock, in seconds
    last,    \* the last command that wrote to the working copy
    merges,  \* the canon merges that succeeded, in order
    out,     \* what the last observe command printed, or its error
    checkpoint  \* whether the last command that wrote created a commit

vars == <<repo, wc, head, now, last, merges, out, checkpoint>>

-----------------------------------------------------------------------------
(* Bounds of the model *)

\* The clock stops advancing at MaxTime.
MaxTime == 2

\* Contexts other than root that the working copy may hold.
MaxContexts == 3

-----------------------------------------------------------------------------
(* Characters and strings *)

UpperCase ==
    <<"A","B","C","D","E","F","G","H","I","J","K","L","M",
      "N","O","P","Q","R","S","T","U","V","W","X","Y","Z">>

LowerCase ==
    <<"a","b","c","d","e","f","g","h","i","j","k","l","m",
      "n","o","p","q","r","s","t","u","v","w","x","y","z">>

Digit == <<"0","1","2","3","4","5","6","7","8","9">>

Range(f) == {f[i] : i \in DOMAIN f}

\* [a-zA-Z0-9]
Alnum == Range(UpperCase) \cup Range(LowerCase) \cup Range(Digit)

\* The characters str.strip() removes.
Whitespace == {" ", "\n", "\t"}

\* str.lower(), one character
LowerChar(c) ==
    IF \E i \in DOMAIN UpperCase : UpperCase[i] = c
    THEN LowerCase[CHOOSE i \in DOMAIN UpperCase : UpperCase[i] = c]
    ELSE c

Lower(s) == [i \in DOMAIN s |-> LowerChar(s[i])]

RECURSIVE LStrip(_, _)
LStrip(s, chars) ==
    IF s # <<>> /\ Head(s) \in chars THEN LStrip(Tail(s), chars) ELSE s

RECURSIVE RStrip(_, _)
RStrip(s, chars) ==
    IF s # <<>> /\ s[Len(s)] \in chars
    THEN RStrip(SubSeq(s, 1, Len(s) - 1), chars)
    ELSE s

Strip(s, chars) == LStrip(RStrip(s, chars), chars)

StartsWith(s, p) == Len(p) <= Len(s) /\ SubSeq(s, 1, Len(p)) = p

EndsWith(s, p) ==
    Len(p) <= Len(s) /\ SubSeq(s, Len(s) - Len(p) + 1, Len(s)) = p

\* The index of the first c in s, 0 when there is none.
Find(s, c) ==
    LET at == {i \in DOMAIN s : s[i] = c}
    IN  IF at = {} THEN 0 ELSE CHOOSE i \in at : \A j \in at : i <= j

\* str.split(c)
RECURSIVE Split(_, _)
Split(s, c) ==
    LET i == Find(s, c)
    IN  IF i = 0 THEN <<s>>
        ELSE <<SubSeq(s, 1, i - 1)>> \o Split(SubSeq(s, i + 1, Len(s)), c)

\* c.join(parts)
RECURSIVE Join(_, _)
Join(parts, c) ==
    IF parts = <<>> THEN <<>>
    ELSE IF Len(parts) = 1 THEN parts[1]
    ELSE parts[1] \o <<c>> \o Join(Tail(parts), c)

\* ord(c), for the characters that occur in ids and locations.
CodePoint ==
    [c \in Alnum \cup {"-", ".", "/"} |->
        IF c = "-" THEN 45
        ELSE IF c = "." THEN 46
        ELSE IF c = "/" THEN 47
        ELSE IF c \in Range(Digit)
             THEN 47 + (CHOOSE i \in DOMAIN Digit : Digit[i] = c)
        ELSE IF c \in Range(UpperCase)
             THEN 64 + (CHOOSE i \in DOMAIN UpperCase : UpperCase[i] = c)
        ELSE 96 + (CHOOSE i \in DOMAIN LowerCase : LowerCase[i] = c)]

Ord(c) == IF c \in DOMAIN CodePoint THEN CodePoint[c] ELSE 32

\* s < t in Python's order on strings: by code point, a proper prefix first.
RECURSIVE StrLessFrom(_, _, _)
StrLessFrom(s, t, i) ==
    IF i > Len(t) THEN FALSE
    ELSE IF i > Len(s) THEN TRUE
    ELSE IF s[i] = t[i] THEN StrLessFrom(s, t, i + 1)
    ELSE Ord(s[i]) < Ord(t[i])

StrLess(s, t) == StrLessFrom(s, t, 1)

-----------------------------------------------------------------------------
(* store.py: names, ids and layout *)

MEMORY_DIRNAME == <<"m","e","m","o","r","y">>
ROOT_DIRNAME == <<"r","o","o","t">>
BRANCH_DIRNAME == <<"b","r","a","n","c","h">>
SUMMARY_DIRNAME == <<"s","u","m","m","a","r","y">>
CANON_DIRNAME == <<"c","a","n","o","n">>
ARCHIVE_DIRNAME == <<"a","r","c","h","i","v","e">>
ROOT_ID == <<"r","o","o","t">>
META_JSON == <<"m","e","t","a",".","j","s","o","n">>
CONTENT_MD == <<"c","o","n","t","e","n","t",".","m","d">>

\* The values of `type` and `status`.
ROOT == <<"r","o","o","t">>
BRANCH == <<"b","r","a","n","c","h">>
SUMMARY == <<"s","u","m","m","a","r","y">>
ACTIVE == <<"a","c","t","i","v","e">>
ARCHIVED == <<"a","r","c","h","i","v","e","d">>
CANONICAL == <<"c","a","n","o","n","i","c","a","l">>

\* How a command ends: OK, or the message of the error it raises.
OK == "ok"

\* A two-digit rendering of the clock: fixed width, as strftime's is.
Stamp(t) == <<Digit[(t \div 10) + 1], Digit[(t % 10) + 1]>>

now_iso(t) == Stamp(t) \o <<"Z">>

timestamp_slug(t) == Stamp(t)

\* re.sub(r"[^a-zA-Z0-9]+", "-", s)
RECURSIVE SubNonAlnum(_)
SubNonAlnum(s) ==
    IF s = <<>> THEN <<>>
    ELSE IF Head(s) \in Alnum THEN <<Head(s)>> \o SubNonAlnum(Tail(s))
    ELSE IF Len(s) > 1 /\ s[2] \notin Alnum THEN SubNonAlnum(Tail(s))
    ELSE <<"-">> \o SubNonAlnum(Tail(s))

slugify(text) ==
    LET cleaned == Strip(SubNonAlnum(Lower(Strip(text, Whitespace))), {"-"})
    IN  IF cleaned = <<>> THEN <<"u","n","t","i","t","l","e","d">> ELSE cleaned

make_id(title, t) == timestamp_slug(t) \o <<"-">> \o slugify(title)

\* Path.__truediv__
PathJoin(dir, name) == dir \o <<"/">> \o name

memory_path == MEMORY_DIRNAME

root_dir == PathJoin(PathJoin(memory_path, ROOT_DIRNAME), ROOT_ID)

branch_dir(branch_id) ==
    PathJoin(PathJoin(memory_path, BRANCH_DIRNAME), branch_id)

archive_branch_dir(branch_id) ==
    PathJoin(PathJoin(PathJoin(memory_path, ARCHIVE_DIRNAME), BRANCH_DIRNAME),
             branch_id)

summary_dir(summary_id) ==
    PathJoin(PathJoin(memory_path, SUMMARY_DIRNAME), summary_id)

canon_dir(summary_id) ==
    PathJoin(PathJoin(memory_path, CANON_DIRNAME), summary_id)

meta_path(context_dir) == PathJoin(context_dir, META_JSON)

content_path(context_dir) == PathJoin(context_dir, CONTENT_MD)

-----------------------------------------------------------------------------
(* Trees, files and JSON objects *)

\* A file holding the JSON object obj (written by json.dumps, read back by
\* json.loads), and a file holding text.
JsonFile(obj) == [json |-> "object", obj |-> obj]

\* A file holding the JSON array [], and a file json.loads cannot parse.
ArrayFile == [json |-> "array", obj |-> << >>]

InvalidFile == [json |-> "invalid"]

TextFile(text) == [text |-> text]

NoFiles == << >>

\* dict.get(key) is not None
Has(obj, key) == key \in DOMAIN obj

\* obj[key] = value
Put(obj, key, value) ==
    [k \in DOMAIN obj \cup {key} |-> IF k = key THEN value ELSE obj[k]]

\* Path.exists(): a file, or a directory that holds one.
Exists(tree, path) ==
    \/ path \in DOMAIN tree
    \/ \E p \in DOMAIN tree : StartsWith(p, path \o <<"/">>)

\* The tree with file path holding content.
WriteFile(tree, path, content) ==
    [p \in DOMAIN tree \cup {path} |-> IF p = path THEN content ELSE tree[p]]

-----------------------------------------------------------------------------
(* store.py: the working copy *)

read_meta(tree, context_dir) ==
    IF meta_path(context_dir) \notin DOMAIN tree
    THEN [err |-> "Missing meta.json"]
    ELSE IF tree[meta_path(context_dir)].json = "invalid"
    THEN [err |-> "JSONDecodeError"]
    ELSE [err |-> OK,
          isdict |-> tree[meta_path(context_dir)].json = "object",
          meta |-> tree[meta_path(context_dir)].obj]

write_meta(tree, context_dir, meta) ==
    WriteFile(tree, meta_path(context_dir), JsonFile(meta))

write_content(tree, context_dir, content) ==
    WriteFile(tree, content_path(context_dir), TextFile(content))

\* mkdir(exist_ok=False) raises FileExistsError, which is no CGraphError.
create_context(tree, context_dir, meta, content) ==
    IF Exists(tree, context_dir)
    THEN [err |-> "FileExistsError", tree |-> tree]
    ELSE [err |-> OK,
          tree |-> write_content(write_meta(tree, context_dir, meta),
                                 context_dir, content)]

root_exists(tree) == meta_path(root_dir) \in DOMAIN tree

ContextRef(type, id) == [type |-> type, id |-> id]

ParentTypes == {ROOT, BRANCH, SUMMARY}

parse_parent(value) ==
    IF value = ROOT THEN [err |-> OK, ref |-> ContextRef(ROOT, ROOT_ID)]
    ELSE IF Find(value, ":") = 0
    THEN [err |-> "Parent must be in the form <type>:<id> or 'root'"]
    ELSE LET parent_type == SubSeq(value, 1, Find(value, ":") - 1)
             parent_id == SubSeq(value, Find(value, ":") + 1, Len(value))
         IN  IF parent_type \notin ParentTypes
             THEN [err |-> "Parent type must be root, branch, or summary"]
             ELSE IF parent_type = ROOT
             THEN [err |-> OK, ref |-> ContextRef(ROOT, ROOT_ID)]
             ELSE [err |-> OK, ref |-> ContextRef(parent_type, parent_id)]

\* The directory resolve_parent looks the parent up in.
ParentPath(tree, parent) ==
    IF parent.type = ROOT THEN root_dir
    ELSE IF parent.type = BRANCH THEN branch_dir(parent.id)
    ELSE IF Exists(tree, summary_dir(parent.id)) THEN summary_dir(parent.id)
    ELSE canon_dir(parent.id)

\* resolve_parent, were it to walk the ancestor chain: a summary whose
\* source branch has left the active branch area is rejected too.
resolve_parent_walking(tree, parent) ==
    LET path == ParentPath(tree, parent)
        read == read_meta(tree, path)
    IN  IF parent.type \notin ParentTypes
        THEN [err |-> "Unknown parent type"]
        ELSE IF ~Exists(tree, path) THEN [err |-> "Parent not found"]
        ELSE IF read.err # OK THEN [err |-> read.err]
        ELSE IF ~read.isdict THEN [err |-> "AttributeError"]
        ELSE IF Has(read.meta, "status") /\ read.meta.status = ARCHIVED
        THEN [err |-> "Parent is archived"]
        ELSE IF /\ parent.type = BRANCH
                /\ ~(Has(read.meta, "status") /\ read.meta.status = ACTIVE)
        THEN [err |-> "Parent branch is not active"]
        ELSE IF /\ parent.type = SUMMARY
                /\ Has(read.meta, "parent")
                /\ ~Exists(tree, branch_dir(read.meta.parent.id))
        THEN [err |-> "Parent is archived"]
        ELSE [err |-> OK, path |-> path]

\* resolve_parent, were the check of a branch parent's status left out.
resolve_parent_any_branch(tree, parent) ==
    LET path == ParentPath(tree, parent)
        read == read_meta(tree, path)
    IN  IF parent.type \notin ParentTypes
        THEN [err |-> "Unknown parent type"]
        ELSE IF ~Exists(tree, path) THEN [err |-> "Parent not found"]
        ELSE IF read.err # OK THEN [err |-> read.err]
        ELSE IF ~read.isdict THEN [err |-> "AttributeError"]
        ELSE IF Has(read.meta, "status") /\ read.meta.status = ARCHIVED
        THEN [err |-> "Parent is archived"]
        ELSE [err |-> OK, path |-> path]

resolve_parent(tree, parent) ==
    LET path == ParentPath(tree, parent)
        read == read_meta(tree, path)
    IN  IF parent.type \notin ParentTypes
        THEN [err |-> "Unknown parent type"]
        ELSE IF ~Exists(tree, path) THEN [err |-> "Parent not found"]
        ELSE IF read.err # OK THEN [err |-> read.err]
        ELSE IF ~read.isdict THEN [err |-> "AttributeError"]
        ELSE IF Has(read.meta, "status") /\ read.meta.status = ARCHIVED
        THEN [err |-> "Parent is archived"]
        ELSE IF /\ parent.type = BRANCH
                /\ ~(Has(read.meta, "status") /\ read.meta.status = ACTIVE)
        THEN [err |-> "Parent branch is not active"]
        ELSE [err |-> OK, path |-> path]

\* The lines of the block's header.
CanonHeader(summary_meta, timestamp) ==
    LET parent == summary_meta.parent
        branch_id ==
            IF Has(summary_meta, "parent") /\ parent.type = BRANCH
            THEN parent.id ELSE <<>>
    IN  << <<"-","-","-">>,
           <<"#","#"," ","C","a","n","o","n"," ","U","p","d","a","t","e",":"," ">>
               \o summary_meta.title,
           <<"-"," ","S","u","m","m","a","r","y",":"," ">> \o summary_meta.id,
           <<"-"," ","M","e","r","g","e","d",":"," ">> \o timestamp >>
        \o (IF branch_id # <<>>
            THEN << <<"-"," ","S","o","u","r","c","e"," ","b","r","a","n","c","h",
                      ":"," ">> \o branch_id >>
            ELSE << >>)
        \o << <<"-","-","-">> >>

CanonBlock(summary_meta, summary_content, timestamp) ==
    Join(CanonHeader(summary_meta, timestamp), "\n")
        \o <<"\n", "\n">> \o Strip(summary_content, Whitespace) \o <<"\n">>

append_canon(tree, root_path, summary_meta, summary_content, timestamp) ==
    LET existing == tree[content_path(root_path)].text
        updated == RStrip(existing, Whitespace) \o <<"\n", "\n">>
                       \o CanonBlock(summary_meta, summary_content, timestamp)
    IN  write_content(tree, root_path, updated)

\* Moved, were the move to take the metadata file alone.
Moved_meta_alone(tree, src, dst) ==
    LET gone == {p \in DOMAIN tree : StartsWith(p, src \o <<"/">>)}
        rest == [p \in DOMAIN tree \ gone |-> tree[p]]
    IN  WriteFile(rest, meta_path(dst), tree[meta_path(src)])

\* Moved, were the move to copy the directory and leave the source in place.
Moved_keeping_source(tree, src, dst) ==
    LET under == {p \in DOMAIN tree : StartsWith(p, src \o <<"/">>)}
        to(p) == dst \o SubSeq(p, Len(src) + 1, Len(p))
        from(q) == CHOOSE p \in under : to(p) = q
    IN  [q \in DOMAIN tree \cup {to(p) : p \in under} |->
            IF q \in DOMAIN tree THEN tree[q] ELSE tree[from(q)]]

\* shutil.move of a directory: every file under src is then under dst.
Moved(tree, src, dst) ==
    LET to(p) == IF StartsWith(p, src \o <<"/">>)
                 THEN dst \o SubSeq(p, Len(src) + 1, Len(p))
                 ELSE p
        from(q) == CHOOSE p \in DOMAIN tree : to(p) = q
    IN  [q \in {to(p) : p \in DOMAIN tree} |-> tree[from(q)]]

\* move_dir, were it to replace an existing destination.
move_dir_replacing(tree, src, dst) ==
    LET kept == {p \in DOMAIN tree : ~StartsWith(p, dst \o <<"/">>)}
    IN  [err |-> OK, tree |-> Moved([p \in kept |-> tree[p]], src, dst)]

move_dir(tree, src, dst) ==
    IF Exists(tree, dst)
    THEN [err |-> "Destination already exists", tree |-> tree]
    ELSE [err |-> OK, tree |-> Moved(tree, src, dst)]

is_active_summary(tree, summary_id) == Exists(tree, summary_dir(summary_id))

is_active_branch(tree, branch_id) == Exists(tree, branch_dir(branch_id))

load_summary(tree, summary_id) ==
    LET path == summary_dir(summary_id)
        read == read_meta(tree, path)
    IN  IF ~Exists(tree, path) THEN [err |-> "Summary not found"]
        ELSE IF read.err # OK THEN [err |-> read.err]
        ELSE IF content_path(path) \notin DOMAIN tree
        THEN [err |-> "FileNotFoundError"]
        ELSE [err |-> OK, path |-> path, isdict |-> read.isdict,
              meta |-> read.meta, content |-> tree[content_path(path)].text]

load_branch(tree, branch_id) ==
    LET path == branch_dir(branch_id)
        read == read_meta(tree, path)
    IN  IF ~Exists(tree, path) THEN [err |-> "Branch not found"]
        ELSE IF read.err # OK THEN [err |-> read.err]
        ELSE [err |-> OK, path |-> path, isdict |-> read.isdict,
              meta |-> read.meta]

load_root(tree) ==
    LET path == root_dir
        read == read_meta(tree, path)
    IN  IF ~Exists(tree, path) THEN [err |-> "Root not initialized"]
        ELSE IF read.err # OK THEN [err |-> read.err]
        ELSE IF content_path(path) \notin DOMAIN tree
        THEN [err |-> "FileNotFoundError"]
        ELSE [err |-> OK, path |-> path, isdict |-> read.isdict,
              meta |-> read.meta, content |-> tree[content_path(path)].text]

-----------------------------------------------------------------------------
(* git.py: reading a snapshot *)

\* The strings of a set in ascending order.
RECURSIVE Ascending(_)
Ascending(strings) ==
    IF strings = {} THEN <<>>
    ELSE LET x == CHOOSE string \in strings : TRUE
             sorted == Ascending(strings \ {x})
         IN  SelectSeq(sorted, LAMBDA y : StrLess(y, x)) \o <<x>>
                 \o SelectSeq(sorted, LAMBDA y : ~StrLess(y, x))

\* git show <ref>:<path>, on the tree at ref
git_show(tree, path) == tree[path]

\* git_list_tree, were it to list the files of the working copy.
git_list_tree_worktree(tree, path) ==
    Ascending({p \in DOMAIN wc : StartsWith(p, path \o <<"/">>)})

\* git ls-tree -r --name-only <ref> -- <path>, on the tree at ref: the files
\* under path, in Git's order (ascending by path).
git_list_tree(tree, path) ==
    Ascending({p \in DOMAIN tree : StartsWith(p, path \o <<"/">>)})

-----------------------------------------------------------------------------
(* observe.py *)

OBSERVATION_SCHEMA_VERSION == <<"1">>

\* PurePosixPath(path).parts, of a relative path
Parts(path) == SelectSeq(Split(path, "/"), LAMBDA part : part # <<>>)

NoMatch == [match |-> FALSE]

Match(location, type, id) ==
    [match |-> TRUE, location |-> location, type |-> type, id |-> id]

\* _parse_meta_path, were it to take any directory of memory/root for root's.
_parse_meta_path_any_root(path) ==
    LET parts == Parts(path)
        first(n) == SubSeq(parts, 1, n)
    IN  IF /\ Len(parts) = 4
           /\ first(2) = <<MEMORY_DIRNAME, ROOT_DIRNAME>>
        THEN IF parts[4] # META_JSON THEN NoMatch
             ELSE Match(Join(first(3), "/"), ROOT, ROOT_ID)
        ELSE IF Len(parts) = 4 /\ first(2) = <<MEMORY_DIRNAME, BRANCH_DIRNAME>>
        THEN IF parts[4] # META_JSON THEN NoMatch
             ELSE Match(Join(first(3), "/"), BRANCH, parts[3])
        ELSE IF Len(parts) = 4 /\ first(2) = <<MEMORY_DIRNAME, SUMMARY_DIRNAME>>
        THEN IF parts[4] # META_JSON THEN NoMatch
             ELSE Match(Join(first(3), "/"), SUMMARY, parts[3])
        ELSE IF Len(parts) = 4 /\ first(2) = <<MEMORY_DIRNAME, CANON_DIRNAME>>
        THEN IF parts[4] # META_JSON THEN NoMatch
             ELSE Match(Join(first(3), "/"), SUMMARY, parts[3])
        ELSE IF /\ Len(parts) = 5
                /\ first(3) = <<MEMORY_DIRNAME, ARCHIVE_DIRNAME, BRANCH_DIRNAME>>
        THEN IF parts[5] # META_JSON THEN NoMatch
             ELSE Match(Join(first(4), "/"), BRANCH, parts[4])
        ELSE NoMatch

_parse_meta_path(path) ==
    LET parts == Parts(path)
        first(n) == SubSeq(parts, 1, n)
    IN  IF /\ Len(parts) = 4
           /\ first(2) = <<MEMORY_DIRNAME, ROOT_DIRNAME>>
           /\ parts[3] = ROOT_ID
        THEN IF parts[4] # META_JSON THEN NoMatch
             ELSE Match(Join(first(3), "/"), ROOT, ROOT_ID)
        ELSE IF Len(parts) = 4 /\ first(2) = <<MEMORY_DIRNAME, BRANCH_DIRNAME>>
        THEN IF parts[4] # META_JSON THEN NoMatch
             ELSE Match(Join(first(3), "/"), BRANCH, parts[3])
        ELSE IF Len(parts) = 4 /\ first(2) = <<MEMORY_DIRNAME, SUMMARY_DIRNAME>>
        THEN IF parts[4] # META_JSON THEN NoMatch
             ELSE Match(Join(first(3), "/"), SUMMARY, parts[3])
        ELSE IF Len(parts) = 4 /\ first(2) = <<MEMORY_DIRNAME, CANON_DIRNAME>>
        THEN IF parts[4] # META_JSON THEN NoMatch
             ELSE Match(Join(first(3), "/"), SUMMARY, parts[3])
        ELSE IF /\ Len(parts) = 5
                /\ first(3) = <<MEMORY_DIRNAME, ARCHIVE_DIRNAME, BRANCH_DIRNAME>>
        THEN IF parts[5] # META_JSON THEN NoMatch
             ELSE Match(Join(first(4), "/"), BRANCH, parts[4])
        ELSE NoMatch

\* json.loads of the file: an object, another JSON value, or an error.
_read_json(tree, path) ==
    IF git_show(tree, path).json = "invalid" THEN [err |-> "Invalid JSON"]
    ELSE [err |-> OK,
          isdict |-> git_show(tree, path).json = "object",
          value |-> git_show(tree, path)]

_content_path(path) ==
    IF ~EndsWith(path, <<"/">> \o META_JSON)
    THEN [err |-> "Invalid meta path"]
    ELSE [err |-> OK,
          path |-> SubSeq(path, 1, Len(path) - Len(META_JSON)) \o CONTENT_MD]

\* What `parent` holds when the metadata names no parent.
None == [none |-> TRUE]

ObservedContext(id, type, status, canonical, location, parent, meta, mp, cp) ==
    [id |-> id, type |-> type, status |-> status, canonical |-> canonical,
     location |-> location, parent |-> parent, meta |-> meta,
     meta_path |-> mp, content_path |-> cp]

\* Observe, were a context whose metadata is missing its content file
\* skipped.
Observe_skipping(tree, path_set, path) ==
    LET parsed == _parse_meta_path(path)
        read == _read_json(tree, path)
        meta == read.value.obj
        content == _content_path(path)
    IN  IF ~parsed.match THEN [err |-> OK, skip |-> TRUE]
        ELSE IF read.err # OK THEN [err |-> read.err]
        ELSE IF ~read.isdict THEN [err |-> "Metadata must be a JSON object"]
        ELSE IF ~(Has(meta, "id") /\ meta.id = parsed.id)
        THEN [err |-> "Meta id mismatch"]
        ELSE IF ~(Has(meta, "type") /\ meta.type = parsed.type)
        THEN [err |-> "Meta type mismatch"]
        ELSE IF ~Has(meta, "status") THEN [err |-> "Missing status"]
        ELSE IF content.err # OK THEN [err |-> content.err]
        ELSE IF content.path \notin path_set
        THEN [err |-> OK, skip |-> TRUE]
        ELSE [err |-> OK, skip |-> FALSE,
              context |->
                  ObservedContext(meta.id, meta.type, meta.status,
                                  meta.status = CANONICAL, parsed.location,
                                  IF Has(meta, "parent") THEN meta.parent
                                  ELSE None,
                                  meta, path, content.path)]

\* One turn of the loop of collect_contexts: the path is skipped, an error
\* is raised, or a context is appended.
Observe(tree, path_set, path) ==
    LET parsed == _parse_meta_path(path)
        read == _read_json(tree, path)
        meta == read.value.obj
        content == _content_path(path)
    IN  IF ~parsed.match THEN [err |-> OK, skip |-> TRUE]
        ELSE IF read.err # OK THEN [err |-> read.err]
        ELSE IF ~read.isdict THEN [err |-> "Metadata must be a JSON object"]
        ELSE IF ~(Has(meta, "id") /\ meta.id = parsed.id)
        THEN [err |-> "Meta id mismatch"]
        ELSE IF ~(Has(meta, "type") /\ meta.type = parsed.type)
        THEN [err |-> "Meta type mismatch"]
        ELSE IF ~Has(meta, "status") THEN [err |-> "Missing status"]
        ELSE IF content.err # OK THEN [err |-> content.err]
        ELSE IF content.path \notin path_set
        THEN [err |-> "Missing content.md"]
        ELSE [err |-> OK, skip |-> FALSE,
              context |->
                  ObservedContext(meta.id, meta.type, meta.status,
                                  meta.status = CANONICAL, parsed.location,
                                  IF Has(meta, "parent") THEN meta.parent
                                  ELSE None,
                                  meta, path, content.path)]

\* The loop over meta_paths: the contexts in the order of the listing, or
\* the first error raised.
\* `one` is what the first path gave and `rest` what the paths after it give.
Collected(one, rest) ==
    IF one.err # OK THEN [err |-> one.err]
    ELSE IF rest.err # OK THEN rest
    ELSE IF one.skip THEN rest
    ELSE [err |-> OK, contexts |-> <<one.context>> \o rest.contexts]

RECURSIVE ObserveAll(_, _, _)
ObserveAll(tree, path_set, meta_paths) ==
    IF meta_paths = <<>> THEN [err |-> OK, contexts |-> <<>>]
    ELSE Collected(Observe(tree, path_set, Head(meta_paths)),
                   ObserveAll(tree, path_set, Tail(meta_paths)))

\* SortByLocation, were the list left in the order of the loop.
SortByLocation_unsorted(contexts) == contexts

\* list.sort(key=lambda ctx: ctx.location): a stable insertion sort.
RECURSIVE SortByLocation(_)
SortByLocation(contexts) ==
    IF contexts = <<>> THEN <<>>
    ELSE LET sorted == SortByLocation(SubSeq(contexts, 1, Len(contexts) - 1))
             x == contexts[Len(contexts)]
             before == SelectSeq(sorted,
                                 LAMBDA c : ~StrLess(x.location, c.location))
             after == SelectSeq(sorted,
                                LAMBDA c : StrLess(x.location, c.location))
         IN  before \o <<x>> \o after

\* Sorted, were an empty list returned as it is.
Sorted_allowing_empty(found) ==
    IF found.err # OK THEN [err |-> found.err]
    ELSE [err |-> OK, contexts |-> SortByLocation(found.contexts)]

\* The end of collect_contexts, `found` being what its loop gave.
Sorted(found) ==
    IF found.err # OK THEN [err |-> found.err]
    ELSE IF found.contexts = <<>> THEN [err |-> "No context metadata found"]
    ELSE [err |-> OK, contexts |-> SortByLocation(found.contexts)]

\* The listing, the set of its paths and the metadata paths among them.
Listed(tree, paths) ==
    Sorted(ObserveAll(tree, Range(paths),
                      SelectSeq(paths,
                                LAMBDA p : EndsWith(p, <<"/">> \o META_JSON))))

collect_contexts(tree) == Listed(tree, git_list_tree(tree, MEMORY_DIRNAME))

\* The optional arguments: canonical is "True", "False" or, when it is
\* not given, "None"; a type that is not given is the empty string.
filter_contexts(contexts, type_filter, canonical) ==
    SelectSeq(contexts,
              LAMBDA context :
                  /\ type_filter # <<>> => context.type = type_filter
                  /\ canonical # "None"
                        => context.canonical = (canonical = "True"))

\* find_context, were it to return the first of several matches.
find_context_first(contexts, context_id, context_type, canonical) ==
    LET matches ==
            SelectSeq(contexts,
                      LAMBDA context :
                          /\ context.id = context_id
                          /\ context_type = <<>> \/ context.type = context_type
                          /\ \/ canonical = "None"
                             \/ context.canonical = (canonical = "True"))
    IN  IF matches = <<>> THEN [err |-> "Context not found"]
        ELSE [err |-> OK, context |-> matches[1]]

find_context(contexts, context_id, context_type, canonical) ==
    LET matches ==
            SelectSeq(contexts,
                      LAMBDA context :
                          /\ context.id = context_id
                          /\ context_type = <<>> \/ context.type = context_type
                          /\ \/ canonical = "None"
                             \/ context.canonical = (canonical = "True"))
    IN  IF matches = <<>> THEN [err |-> "Context not found"]
        ELSE IF Len(matches) > 1 THEN [err |-> "Multiple contexts match"]
        ELSE [err |-> OK, context |-> matches[1]]

\* children_of, were the type of the parent not compared.
children_of_by_id(contexts, parent) ==
    SelectSeq(contexts,
              LAMBDA context :
                  /\ context.parent # None
                  /\ context.parent.id = parent.id)

children_of(contexts, parent) ==
    SelectSeq(contexts,
              LAMBDA context :
                  /\ context.parent # None
                  /\ context.parent.type = parent.type
                  /\ context.parent.id = parent.id)

serialize_context(context, include_meta) ==
    LET payload == [id |-> context.id, type |-> context.type,
                    status |-> context.status,
                    canonical |-> context.canonical,
                    location |-> context.location]
        with_parent == IF context.parent # None
                       THEN Put(payload, "parent", context.parent)
                       ELSE payload
    IN  IF include_meta THEN Put(with_parent, "meta", context.meta)
        ELSE with_parent

serialize_index(contexts, ref) ==
    [schema_version |-> OBSERVATION_SCHEMA_VERSION, ref |-> ref,
     contexts |-> [i \in DOMAIN contexts |->
                      serialize_context(contexts[i], FALSE)]]

serialize_observation(tree, context, ref, include_content) ==
    LET payload == serialize_context(context, TRUE)
    IN  [schema_version |-> OBSERVATION_SCHEMA_VERSION, ref |-> ref,
         context |-> IF include_content
                     THEN Put(payload, "content",
                              git_show(tree, context.content_path).text)
                     ELSE payload]

-----------------------------------------------------------------------------
(* cli.py: the commands.  A command runs to its end within one tick of the *)
(* clock, so the timestamps it takes are equal.  What a command does to    *)
(* the working copy is an outcome: OK or the error it ended with, the      *)
(* working copy it leaves, whether it reached commit_memory, and the id it *)
(* printed.                                                                *)

Outcome(err, tree, commit, id) ==
    [err |-> err, tree |-> tree, commit |-> commit, id |-> id]

\* fail(), or an error raised before any write: nothing changes.
Fails(err) == Outcome(err, wc, FALSE, <<>>)

\* An error raised after the writes that left tree, before commit_memory.
Aborts(err, tree) == Outcome(err, tree, FALSE, <<>>)

Succeeds(id, tree) == Outcome(OK, tree, TRUE, id)

\* main catches CGraphError alone and reports it through fail(); these
\* endings are exceptions of other classes, which leave main as they are.
Uncaught ==
    {"FileExistsError", "FileNotFoundError", "JSONDecodeError",
     "AttributeError", "TypeError"}

\* git add -A -- memory, then git commit unless nothing changed: HEAD then
\* holds the files of the working copy.
\* commit_memory, were it to return without a commit.
commit_memory_skipped(committed, tree) == committed

commit_memory(committed, tree) == IF tree = committed THEN committed ELSE tree

\* git status --porcelain -- memory, after git add -A -- memory: whether
\* memory/ differs from the tree committed at HEAD.
Staged(committed, tree) == tree # committed

require_git_repo == IF repo THEN OK ELSE "Project is not a Git repository"

Heading(title) == <<"#", " ">> \o title \o <<"\n", "\n">>

\* The metadata the commands write.
RootMeta(title, t) ==
    [id |-> ROOT_ID, type |-> ROOT, status |-> CANONICAL, title |-> title,
     created_at |-> now_iso(t)]

\* BranchMeta, were the id the slug of the title, without the timestamp.
BranchMeta_slug_id(branch_id, title, t, parent) ==
    [id |-> slugify(title), type |-> BRANCH, status |-> ACTIVE,
     title |-> title, created_at |-> now_iso(t),
     parent |-> [type |-> parent.type, id |-> parent.id]]

BranchMeta(branch_id, title, t, parent) ==
    [id |-> branch_id, type |-> BRANCH, status |-> ACTIVE, title |-> title,
     created_at |-> now_iso(t),
     parent |-> [type |-> parent.type, id |-> parent.id]]

\* SummaryMeta, were the parent recorded the root.
SummaryMeta_under_root(summary_id, title, t, branch) ==
    [id |-> summary_id, type |-> SUMMARY, status |-> ACTIVE, title |-> title,
     created_at |-> now_iso(t), parent |-> [type |-> ROOT, id |-> ROOT_ID]]

SummaryMeta(summary_id, title, t, branch) ==
    [id |-> summary_id, type |-> SUMMARY, status |-> ACTIVE, title |-> title,
     created_at |-> now_iso(t), parent |-> [type |-> BRANCH, id |-> branch]]

\* MergedRootMeta, were it to update the summary's metadata in place of
\* root's.
MergedRootMeta_of_summary(root_meta, summary_meta, t) ==
    Put(Put(summary_meta, "updated_at", now_iso(t)),
        "latest_summary_id", summary_meta.id)

MergedRootMeta(root_meta, summary_meta, t) ==
    Put(Put(root_meta, "updated_at", now_iso(t)),
        "latest_summary_id", summary_meta.id)

\* MergedSummaryMeta, were the status left as it is.
MergedSummaryMeta_status_kept(summary_meta, t) ==
    Put(summary_meta, "merged_at", now_iso(t))

MergedSummaryMeta(summary_meta, t) ==
    Put(Put(summary_meta, "status", CANONICAL), "merged_at", now_iso(t))

ArchivedBranchMeta(branch_meta, t) ==
    Put(Put(branch_meta, "status", ARCHIVED), "archived_at", now_iso(t))

init(title) ==
    LET meta == RootMeta(title, now)
        content == Heading(title)
            \o <<"C","a","n","o","n","i","c","a","l"," ","r","o","o","t"," ",
                 "c","o","n","t","e","x","t",".","\n">>
        made == create_context(wc, root_dir, meta, content)
    IN  IF root_exists(wc) THEN Fails("root already exists")
        ELSE IF made.err # OK THEN Fails(made.err)
        ELSE Succeeds(ROOT_ID, made.tree)

branch_new(title, from) ==
    LET parsed == parse_parent(from)
        resolved == resolve_parent(wc, parsed.ref)
        branch_id == make_id(title, now)
        meta == BranchMeta(branch_id, title, now, parsed.ref)
        content == Heading(title)
            \o <<"B","r","a","n","c","h"," ","c","o","n","t","e","x","t",".","\n">>
        made == create_context(wc, branch_dir(branch_id), meta, content)
    IN  IF require_git_repo # OK THEN Fails(require_git_repo)
        ELSE IF ~root_exists(wc) THEN Fails("root not initialized")
        ELSE IF parsed.err # OK THEN Fails(parsed.err)
        ELSE IF resolved.err # OK THEN Fails(resolved.err)
        ELSE IF made.err # OK THEN Fails(made.err)
        ELSE Succeeds(branch_id, made.tree)

\* summary_new, were the status of the branch not looked at.
summary_new_any_status(title, branch) ==
    LET loaded == load_branch(wc, branch)
        summary_id == make_id(title, now)
        meta == SummaryMeta(summary_id, title, now, branch)
        content == Heading(title)
            \o <<"S","u","m","m","a","r","y"," ","c","o","n","t","e","n","t",".",
                 "\n">>
        made == create_context(wc, summary_dir(summary_id), meta, content)
    IN  IF require_git_repo # OK THEN Fails(require_git_repo)
        ELSE IF ~root_exists(wc) THEN Fails("root not initialized")
        ELSE IF loaded.err # OK THEN Fails(loaded.err)
        ELSE IF made.err # OK THEN Fails(made.err)
        ELSE Succeeds(summary_id, made.tree)

summary_new(title, branch) ==
    LET loaded == load_branch(wc, branch)
        summary_id == make_id(title, now)
        meta == SummaryMeta(summary_id, title, now, branch)
        content == Heading(title)
            \o <<"S","u","m","m","a","r","y"," ","c","o","n","t","e","n","t",".",
                 "\n">>
        made == create_context(wc, summary_dir(summary_id), meta, content)
    IN  IF require_git_repo # OK THEN Fails(require_git_repo)
        ELSE IF ~root_exists(wc) THEN Fails("root not initialized")
        ELSE IF loaded.err # OK THEN Fails(loaded.err)
        ELSE IF ~loaded.isdict THEN Fails("AttributeError")
        ELSE IF ~(Has(loaded.meta, "status") /\ loaded.meta.status = ACTIVE)
        THEN Fails("branch is not active")
        ELSE IF made.err # OK THEN Fails(made.err)
        ELSE Succeeds(summary_id, made.tree)

\* canon_merge, were the status of the summary not looked at.
canon_merge_any_status(summary) ==
    LET loaded == load_summary(wc, summary)
        summary_meta == loaded.meta
        parent == summary_meta.parent
        root == load_root(wc)
        appended == append_canon(wc, root.path, summary_meta, loaded.content,
                                 now_iso(now))
        root_meta == MergedRootMeta(root.meta, summary_meta, now)
        merged_meta == MergedSummaryMeta(summary_meta, now)
        written == write_meta(write_meta(appended, root.path, root_meta),
                              loaded.path, merged_meta)
        moved == move_dir(written, loaded.path, canon_dir(summary))
    IN  IF require_git_repo # OK THEN Fails(require_git_repo)
        ELSE IF ~root_exists(wc) THEN Fails("root not initialized")
        ELSE IF ~is_active_summary(wc, summary)
        THEN Fails("summary not found or already merged")
        ELSE IF loaded.err # OK THEN Fails(loaded.err)
        ELSE IF ~loaded.isdict THEN Fails("AttributeError")
        ELSE IF ~(Has(summary_meta, "parent") /\ parent.type = BRANCH)
        THEN Fails("summary parent is not a branch")
        ELSE IF parent.id = <<>> \/ ~is_active_branch(wc, parent.id)
        THEN Fails("source branch must be active to merge")
        ELSE IF root.err # OK THEN Fails(root.err)
        ELSE IF ~root.isdict THEN Aborts("TypeError", appended)
        ELSE IF moved.err # OK THEN Aborts(moved.err, written)
        ELSE Succeeds(summary_meta.id, moved.tree)

canon_merge(summary) ==
    LET loaded == load_summary(wc, summary)
        summary_meta == loaded.meta
        parent == summary_meta.parent
        root == load_root(wc)
        appended == append_canon(wc, root.path, summary_meta, loaded.content,
                                 now_iso(now))
        root_meta == MergedRootMeta(root.meta, summary_meta, now)
        merged_meta == MergedSummaryMeta(summary_meta, now)
        written == write_meta(write_meta(appended, root.path, root_meta),
                              loaded.path, merged_meta)
        moved == move_dir(written, loaded.path, canon_dir(summary))
    IN  IF require_git_repo # OK THEN Fails(require_git_repo)
        ELSE IF ~root_exists(wc) THEN Fails("root not initialized")
        ELSE IF ~is_active_summary(wc, summary)
        THEN Fails("summary not found or already merged")
        ELSE IF loaded.err # OK THEN Fails(loaded.err)
        ELSE IF ~loaded.isdict THEN Fails("AttributeError")
        ELSE IF ~(Has(summary_meta, "status") /\ summary_meta.status = ACTIVE)
        THEN Fails("summary is not active")
        ELSE IF ~(Has(summary_meta, "parent") /\ parent.type = BRANCH)
        THEN Fails("summary parent is not a branch")
        ELSE IF parent.id = <<>> \/ ~is_active_branch(wc, parent.id)
        THEN Fails("source branch must be active to merge")
        ELSE IF root.err # OK THEN Fails(root.err)
        ELSE IF ~root.isdict THEN Aborts("TypeError", appended)
        ELSE IF moved.err # OK THEN Aborts(moved.err, written)
        ELSE Succeeds(summary_meta.id, moved.tree)

branch_archive(branch) ==
    LET loaded == load_branch(wc, branch)
        branch_meta == ArchivedBranchMeta(loaded.meta, now)
        written == write_meta(wc, loaded.path, branch_meta)
        moved == move_dir(written, loaded.path, archive_branch_dir(branch))
    IN  IF require_git_repo # OK THEN Fails(require_git_repo)
        ELSE IF ~root_exists(wc) THEN Fails("root not initialized")
        ELSE IF loaded.err # OK THEN Fails(loaded.err)
        ELSE IF ~loaded.isdict THEN Fails("AttributeError")
        ELSE IF Has(loaded.meta, "status") /\ loaded.meta.status = ARCHIVED
        THEN Fails("branch already archived")
        ELSE IF moved.err # OK THEN Aborts(moved.err, written)
        ELSE Succeeds(branch, moved.tree)

\* What an observe command leaves on its output: the payload it printed,
\* or the error it ended with.  `out` holds it until the next command.
NoOutput == [err |-> "none"]

Failed(err) == [err |-> err]

Printed(payload) == [err |-> OK, payload |-> payload]

\* --ref is left at its default: the snapshot read is the tree at HEAD.
HEAD == "HEAD"

canonical_filter(canonical, non_canonical) ==
    IF canonical THEN "True" ELSE IF non_canonical THEN "False" ELSE "None"

\* observe get once find_context has returned or raised.
get_found(found, meta_only) ==
    IF found.err # OK THEN Failed(found.err)
    ELSE Printed(serialize_observation(head, found.context, HEAD, ~meta_only))

\* observe get once collect_contexts has returned or raised.
get_among(contexts, id, type, canonical, meta_only) ==
    IF contexts.err # OK THEN Failed(contexts.err)
    ELSE get_found(find_context(contexts.contexts, id, type, canonical),
                   meta_only)

observe_get(id, type, canonical, non_canonical, meta_only) ==
    IF require_git_repo # OK THEN Failed(require_git_repo)
    ELSE IF canonical /\ non_canonical
    THEN Failed("choose only one of --canonical or --non-canonical")
    ELSE get_among(collect_contexts(head), id, type,
                   canonical_filter(canonical, non_canonical), meta_only)

\* observe list once collect_contexts has returned or raised.
list_among(contexts, type, canonical) ==
    IF contexts.err # OK THEN Failed(contexts.err)
    ELSE Printed(serialize_index(filter_contexts(contexts.contexts, type,
                                                 canonical),
                                 HEAD))

observe_list(type, canonical, non_canonical) ==
    IF require_git_repo # OK THEN Failed(require_git_repo)
    ELSE IF canonical /\ non_canonical
    THEN Failed("choose only one of --canonical or --non-canonical")
    ELSE list_among(collect_contexts(head), type,
                    canonical_filter(canonical, non_canonical))

\* observe children once collect_contexts has returned or raised.
children_among(contexts, parent) ==
    IF contexts.err # OK THEN Failed(contexts.err)
    ELSE Printed(serialize_index(children_of(contexts.contexts, parent), HEAD))

\* observe children once parse_parent has returned or raised.
children_parsed(parsed) ==
    IF parsed.err # OK THEN Failed(parsed.err)
    ELSE children_among(collect_contexts(head), parsed.ref)

observe_children(parent) ==
    IF require_git_repo # OK THEN Failed(require_git_repo)
    ELSE children_parsed(parse_parent(parent))

-----------------------------------------------------------------------------
(* The commands as steps *)

\* What `last` keeps of a command: its name, its argument (the title for
\* init, else the value of --from, --branch or --summary), how it ended and
\* the id it was about.
Result(cmd, arg, err, id) == [cmd |-> cmd, arg |-> arg, err |-> err, id |-> id]

\* The context directories of a tree, root's apart.
ContextDirs(tree) ==
    {SubSeq(p, 1, Len(p) - Len(META_JSON) - 1) :
        p \in {q \in DOMAIN tree : EndsWith(q, <<"/">> \o META_JSON)}}
    \ {root_dir}

\* The command cmd, run with arg, ends with outcome res.
Run(cmd, arg, res) ==
    /\ wc' = res.tree
    /\ head' = IF res.commit THEN commit_memory(head, res.tree) ELSE head
    /\ last' = IF res.tree = wc THEN last ELSE Result(cmd, arg, res.err, res.id)
    /\ out' = NoOutput
    /\ checkpoint' = IF res.tree = wc THEN checkpoint
                     ELSE res.commit /\ Staged(head, res.tree)
    /\ UNCHANGED now

\* The model creates a context only while the working copy holds fewer than
\* MaxContexts of them.
Room(res) == res.err = OK => Cardinality(ContextDirs(wc)) < MaxContexts

cmd_init(title) ==
    /\ repo' = TRUE
    /\ Run("init", title, init(title))
    /\ UNCHANGED merges

cmd_branch_new(title, from) ==
    /\ Room(branch_new(title, from))
    /\ Run("branch new", from, branch_new(title, from))
    /\ UNCHANGED <<repo, merges>>

cmd_summary_new(title, branch) ==
    /\ Room(summary_new(title, branch))
    /\ Run("summary new", branch, summary_new(title, branch))
    /\ UNCHANGED <<repo, merges>>

cmd_canon_merge(summary) ==
    /\ Run("canon merge", summary, canon_merge(summary))
    /\ merges' = IF canon_merge(summary).err = OK
                 THEN Append(merges,
                             [summary |-> summary,
                              branch |-> wc[meta_path(summary_dir(summary))]
                                            .obj.parent.id])
                 ELSE merges
    /\ UNCHANGED repo

cmd_branch_archive(branch) ==
    /\ Run("branch archive", branch, branch_archive(branch))
    /\ UNCHANGED <<repo, merges>>

cmd_observe_get(id, type, canonical, non_canonical, meta_only) ==
    /\ out' = observe_get(id, type, canonical, non_canonical, meta_only)
    /\ UNCHANGED <<repo, wc, head, now, last, merges, checkpoint>>

\* cmd_observe_list, were it to check the snapshot out into the working copy.
cmd_observe_list_checkout(type, canonical, non_canonical) ==
    /\ out' = observe_list(type, canonical, non_canonical)
    /\ wc' = head
    /\ UNCHANGED <<repo, head, now, last, merges, checkpoint>>

cmd_observe_list(type, canonical, non_canonical) ==
    /\ out' = observe_list(type, canonical, non_canonical)
    /\ UNCHANGED <<repo, wc, head, now, last, merges, checkpoint>>

cmd_observe_children(parent) ==
    /\ out' = observe_children(parent)
    /\ UNCHANGED <<repo, wc, head, now, last, merges, checkpoint>>

\* A second passes.
Tick ==
    /\ now < MaxTime
    /\ now' = now + 1
    /\ UNCHANGED <<repo, wc, head, last, merges, out, checkpoint>>

\* shutil.rmtree(base / MEMORY_DIRNAME): memory/ is deleted from the working
\* copy, outside any command.
rmtree ==
    /\ wc # NoFiles
    /\ wc' = NoFiles
    /\ UNCHANGED <<repo, head, now, last, merges, out, checkpoint>>

-----------------------------------------------------------------------------
(* The arguments the commands are run with *)

Titles == { <<"X", "!">> }

\* Every id make_id can give, and root's.
Ids == {make_id(title, t) : title \in Titles, t \in 1..MaxTime} \cup {ROOT_ID}

\* Values of --from: well formed ones, one without a colon, one of no type.
FromArgs ==
    {ROOT}
    \cup {type \o <<":">> \o id : type \in {BRANCH, SUMMARY}, id \in Ids \ {ROOT_ID}}
    \cup {ROOT \o <<":">> \o <<"x">>, <<"x">>, <<"l","e","a","f",":","x">>}

Init ==
    /\ repo \in BOOLEAN
    /\ wc = NoFiles
    /\ head = NoFiles
    /\ now = 1
    /\ last = Result("none", <<>>, OK, <<>>)
    /\ merges = <<>>
    /\ out = NoOutput
    /\ checkpoint = FALSE

Next ==
    \/ \E title \in Titles : cmd_init(title)
    \/ \E title \in Titles, from \in FromArgs : cmd_branch_new(title, from)
    \/ \E title \in Titles, branch \in Ids : cmd_summary_new(title, branch)
    \/ \E summary \in Ids : cmd_canon_merge(summary)
    \/ \E branch \in Ids : cmd_branch_archive(branch)
    \/ Tick

Spec == Init /\ [][Next]_vars

-----------------------------------------------------------------------------
(* Arbitrary trees: what a working copy or a Git ref may hold, whether or   *)
(* not the commands can produce it.  A tree holds, at each of the           *)
(* recognised context locations, nothing or a context directory.            *)

\* The ids of the contexts of such a tree.
SnapshotIds == {make_id(title, 1) : title \in Titles}

\* The recognised locations, with the type and id each implies.
Located(dir, type, id) == [dir |-> dir, type |-> type, id |-> id]

Locations ==
    {Located(root_dir, ROOT, ROOT_ID)}
    \cup {Located(branch_dir(id), BRANCH, id) : id \in SnapshotIds}
    \cup {Located(archive_branch_dir(id), BRANCH, id) : id \in SnapshotIds}
    \cup {Located(summary_dir(id), SUMMARY, id) : id \in SnapshotIds}
    \cup {Located(canon_dir(id), SUMMARY, id) : id \in SnapshotIds}

\* The status the commands give a context at a location.
StatusAt(loc) ==
    IF loc.type = ROOT \/ loc.dir = canon_dir(loc.id) THEN CANONICAL
    ELSE IF loc.dir = archive_branch_dir(loc.id) THEN ARCHIVED
    ELSE ACTIVE

\* The statuses a context may have at a location: any, or the one the
\* commands give it.
StatusesAt(loc, any) ==
    IF any THEN {ACTIVE, ARCHIVED, CANONICAL} ELSE {StatusAt(loc)}

\* Metadata that agrees with its location.
MetaAt(loc, status) ==
    LET meta == [id |-> loc.id, type |-> loc.type, status |-> status,
                 title |-> <<"X">>, created_at |-> now_iso(1)]
    IN  IF loc.type = ROOT THEN meta
        ELSE IF loc.type = BRANCH
        THEN Put(meta, "parent", [type |-> ROOT, id |-> ROOT_ID])
        ELSE Put(meta, "parent", [type |-> BRANCH, id |-> loc.id])

Without(meta, key) == [k \in DOMAIN meta \ {key} |-> meta[k]]

\* The files of a directory, as files of a tree.
Placed(loc, files) ==
    [p \in {PathJoin(loc.dir, name) : name \in DOMAIN files} |->
        files[SubSeq(p, Len(loc.dir) + 2, Len(p))]]

SomeContent == TextFile(<<"#", " ", "X", "\n">>)

\* A context directory: its metadata file and its content file.
Directory(loc, meta) ==
    Placed(loc, (META_JSON :> meta) @@ (CONTENT_MD :> SomeContent))

\* The trees that hold well formed directories, at the locations locs alone.
RECURSIVE TreesOver(_, _)
TreesOver(locs, any) ==
    IF locs = {} THEN {NoFiles}
    ELSE LET loc == CHOOSE l \in locs : TRUE
             rest == TreesOver(locs \ {loc}, any)
         IN  rest \cup {Directory(loc, JsonFile(MetaAt(loc, status))) @@ tree :
                           status \in StatusesAt(loc, any), tree \in rest}

\* The ways a directory may be malformed: an id or a type other than the
\* location's, no status, metadata that is no JSON object or no JSON at
\* all, no content file, no metadata file.
Malformed(loc) ==
    LET meta == MetaAt(loc, StatusAt(loc))
        other == IF loc.type = BRANCH THEN SUMMARY ELSE BRANCH
    IN  {Directory(loc, JsonFile(Put(meta, "id", <<"z">>))),
         Directory(loc, JsonFile(Put(meta, "type", other))),
         Directory(loc, JsonFile(Without(meta, "status"))),
         Directory(loc, ArrayFile),
         Directory(loc, InvalidFile),
         Placed(loc, (META_JSON :> JsonFile(meta))),
         Placed(loc, (CONTENT_MD :> SomeContent))}

\* The tree without what it holds at a location.
Cleared(tree, loc) ==
    [p \in {q \in DOMAIN tree : ~StartsWith(q, loc.dir \o <<"/">>)} |-> tree[p]]

\* The trees whose directories are well formed and have the status of their
\* location, and those trees with one directory malformed.
Regular == TreesOver(Locations, FALSE)

Damaged ==
    UNION {{bad @@ Cleared(tree, loc) : tree \in Regular, bad \in Malformed(loc)} :
           loc \in Locations}

\* The snapshots the observer is run on.
Snapshots == Regular \cup Damaged

\* The working copies resolve_parent is run on: contexts of any status.
WorkingCopies == TreesOver(Locations, TRUE) \cup Damaged

\* The arguments of the observe commands.
TypeArgs == {<<>>, ROOT, BRANCH, SUMMARY}

ParentArgs ==
    {ROOT, <<"x">>}
    \cup {type \o <<":">> \o id : type \in {BRANCH, SUMMARY}, id \in SnapshotIds}

InitSnapshot ==
    /\ repo = TRUE
    /\ head \in Snapshots
    /\ wc = head
    /\ now = 1
    /\ last = Result("none", <<>>, OK, <<>>)
    /\ merges = <<>>
    /\ out = NoOutput
    /\ checkpoint = FALSE

NextSnapshot ==
    \/ \E id \in SnapshotIds \cup {ROOT_ID}, type \in TypeArgs \ {ROOT},
          canonical \in BOOLEAN, non_canonical \in BOOLEAN,
          meta_only \in BOOLEAN :
            cmd_observe_get(id, type, canonical, non_canonical, meta_only)
    \/ \E type \in TypeArgs, canonical \in BOOLEAN, non_canonical \in BOOLEAN :
            cmd_observe_list(type, canonical, non_canonical)
    \/ \E parent \in ParentArgs : cmd_observe_children(parent)

SpecSnapshot == InitSnapshot /\ [][NextSnapshot]_vars

InitWorkingCopy ==
    /\ repo = TRUE
    /\ wc \in WorkingCopies
    /\ head = wc
    /\ now = 1
    /\ last = Result("none", <<>>, OK, <<>>)
    /\ merges = <<>>
    /\ out = NoOutput
    /\ checkpoint = FALSE

NextWorkingCopy ==
    \/ \E title \in Titles, from \in FromArgs : cmd_branch_new(title, from)
    \/ \E title \in Titles, branch \in Ids : cmd_summary_new(title, branch)

SpecWorkingCopy == InitWorkingCopy /\ [][NextWorkingCopy]_vars

\* The observer beside a working copy that moves away from history: from a
\* committed tree, commands that write (and may fail after writing), the
\* deletion of memory/ and the observe commands.
InitHistory ==
    /\ repo = TRUE
    /\ head \in Regular
    /\ wc = head
    /\ now = 1
    /\ last = Result("none", <<>>, OK, <<>>)
    /\ merges = <<>>
    /\ out = NoOutput
    /\ checkpoint = FALSE

NextHistory ==
    \/ \E summary \in SnapshotIds : cmd_canon_merge(summary)
    \/ \E branch \in SnapshotIds : cmd_branch_archive(branch)
    \/ rmtree
    \/ \E id \in SnapshotIds \cup {ROOT_ID}, meta_only \in BOOLEAN :
            cmd_observe_get(id, <<>>, FALSE, FALSE, meta_only)
    \/ \E type \in {<<>>, SUMMARY}, canonical \in BOOLEAN :
            cmd_observe_list(type, canonical, FALSE)
    \/ \E parent \in ParentArgs : cmd_observe_children(parent)

SpecHistory == InitHistory /\ [][NextHistory]_vars

\* The model deletes memory/ beside the commands only before the first
\* merge, which keeps the log of merges finite.
rmtree_before_merge == merges = << >> /\ rmtree

\* The commands beside the deletion of memory/ from the working copy: a
\* command may then write what HEAD already holds.
NextCommit == Next \/ rmtree_before_merge

SpecCommit == Init /\ [][NextCommit]_vars

\* Files of a Git tree under memory/ that belong to no context directory:
\* beside the areas, in an area without a directory, below a context
\* directory, in an area the layout does not have, and beside root.
StrayFiles ==
    LET id == CHOOSE i \in SnapshotIds : TRUE
        x == <<"x">>
        y == <<"y">>
        meta == JsonFile(MetaAt(Located(branch_dir(id), BRANCH, id), ACTIVE))
        at(dir) == PathJoin(dir, META_JSON)
        area(name) == PathJoin(memory_path, name)
    IN  (PathJoin(memory_path, y) :> SomeContent)
        @@ (at(memory_path) :> InvalidFile)
        @@ (at(area(BRANCH_DIRNAME)) :> InvalidFile)
        @@ (at(PathJoin(branch_dir(id), x)) :> meta)
        @@ (at(PathJoin(area(x), id)) :> meta)
        @@ (at(PathJoin(PathJoin(area(ARCHIVE_DIRNAME), SUMMARY_DIRNAME), id))
               :> meta)
        @@ (at(PathJoin(area(ARCHIVE_DIRNAME), id)) :> ArrayFile)
        @@ (at(PathJoin(area(ROOT_DIRNAME), x)) :> meta)
        @@ (at(PathJoin(root_dir, x)) :> InvalidFile)
        @@ (PathJoin(branch_dir(id), y) :> SomeContent)
        @@ (PathJoin(PathJoin(canon_dir(id), x), CONTENT_MD) :> SomeContent)

\* What is added to a snapshot: nothing, one stray file, or all of them.
Strays ==
    {NoFiles, StrayFiles}
    \cup {[p \in {path} |-> StrayFiles[p]] : path \in DOMAIN StrayFiles}

\* The observer on snapshots that hold stray files beside their contexts.
InitStray ==
    /\ repo = TRUE
    /\ head \in {tree @@ stray : tree \in Snapshots, stray \in Strays}
    /\ wc = head
    /\ now = 1
    /\ last = Result("none", <<>>, OK, <<>>)
    /\ merges = <<>>
    /\ out = NoOutput
    /\ checkpoint = FALSE

NextStray ==
    \/ \E canonical \in BOOLEAN : cmd_observe_list(<<>>, canonical, FALSE)
    \/ cmd_observe_children(ROOT)

SpecStray == InitStray /\ [][NextStray]_vars

-----------------------------------------------------------------------------
(* The claims *)

MetaPaths(tree) == {p \in DOMAIN tree : EndsWith(p, <<"/">> \o META_JSON)}

\* The metadata of the context in directory dir.
MetaOf(tree, dir) == tree[meta_path(dir)].obj

InArea(p, area) == StartsWith(p, PathJoin(memory_path, area) \o <<"/">>)

\* C1: once a command has written to the working copy (the first to do so
\* is a successful init), the working copy holds exactly one context of type
\* root, it is at memory/root/root, and its status is canonical.
OneCanonicalRoot(tree) ==
    /\ {p \in MetaPaths(tree) : tree[p].obj.type = ROOT} = {meta_path(root_dir)}
    /\ content_path(root_dir) \in DOMAIN tree
    /\ MetaOf(tree, root_dir).status = CANONICAL

C2_Terminal ==
    [][/\ \A p \in DOMAIN wc :
              InArea(p, CANON_DIRNAME) \/ InArea(p, ARCHIVE_DIRNAME)
                  => p \in DOMAIN wc' /\ wc'[p] = wc[p]
       /\ \A p \in MetaPaths(wc') :
              /\ InArea(p, CANON_DIRNAME) => wc'[p].obj.status = CANONICAL
              /\ InArea(p, ARCHIVE_DIRNAME) => wc'[p].obj.status = ARCHIVED
      ]_vars

\* A branch was archived after one of its summaries was merged and the
\* summary's id given to a new summary: the new one is in the active area,
\* the merged one stays in the canon area.
C2_Witness ==
    \E s \in Ids, b \in Ids :
        /\ Exists(wc, canon_dir(s)) /\ Exists(wc, summary_dir(s))
        /\ Exists(wc, archive_branch_dir(b))

\* The errors the spec calls InvalidParent.
InvalidParent ==
    {"Parent is archived", "Parent branch is not active",
     "summary parent is not a branch"}

\* Branch b was archived while summary s, its child, is active.
ArchivedWithActiveSummary(b, s) ==
    /\ Exists(wc, archive_branch_dir(b))
    /\ ~Exists(wc, branch_dir(b))
    /\ meta_path(summary_dir(s)) \in DOMAIN wc
    /\ MetaOf(wc, summary_dir(s)).status = ACTIVE
    /\ MetaOf(wc, summary_dir(s)).parent = [type |-> BRANCH, id |-> b]

FromSummary(s) == SUMMARY \o <<":">> \o s

\* C3, as claimed: `branch new` from an active summary of an archived branch
\* fails with InvalidParent and creates no branch.
C3_Claimed ==
    \A b \in Ids, s \in Ids, title \in Titles :
        ArchivedWithActiveSummary(b, s)
            => /\ branch_new(title, FromSummary(s)).err \in InvalidParent
               /\ branch_new(title, FromSummary(s)).tree = wc

\* C3, amended: resolve_parent looks at the direct parent alone, so it
\* returns the summary's directory; `branch new` then ends OK, with a new
\* active branch whose parent is the summary, committed, unless the id it
\* makes is the name of an existing branch directory (FileExistsError).
C3_DirectParentOnly ==
    \A b \in Ids, s \in Ids, title \in Titles :
        ArchivedWithActiveSummary(b, s)
            => LET made == branch_new(title, FromSummary(s))
                   new == make_id(title, now)
               IN  /\ resolve_parent(wc, ContextRef(SUMMARY, s))
                          = [err |-> OK, path |-> summary_dir(s)]
                   /\ IF Exists(wc, branch_dir(new))
                      THEN made.err = "FileExistsError" /\ made.tree = wc
                      ELSE /\ made.err = OK /\ made.commit /\ made.id = new
                           /\ MetaOf(made.tree, branch_dir(new)).status = ACTIVE
                           /\ MetaOf(made.tree, branch_dir(new)).parent
                                  = [type |-> SUMMARY, id |-> s]

\* The branch was created: the last command is that `branch new`.
C3_Witness ==
    \E b \in Ids, s \in Ids :
        /\ ArchivedWithActiveSummary(b, s)
        /\ last = Result("branch new", FromSummary(s), OK, last.id)
        /\ MetaOf(wc, branch_dir(last.id)).parent = [type |-> SUMMARY, id |-> s]

\* The directories a parent reference may name a context in.
Candidates(parent) ==
    IF parent.type = ROOT THEN {root_dir}
    ELSE IF parent.type = BRANCH
    THEN {branch_dir(parent.id), archive_branch_dir(parent.id)}
    ELSE IF parent.type = SUMMARY
    THEN {summary_dir(parent.id), canon_dir(parent.id)}
    ELSE {}

\* The contexts a tree holds for a parent reference, and their status (the
\* empty string when the metadata has none).
ContextsOf(tree, parent) ==
    {dir \in Candidates(parent) :
        /\ meta_path(dir) \in DOMAIN tree
        /\ tree[meta_path(dir)].json = "object"}

StatusOf(tree, dir) ==
    IF Has(MetaOf(tree, dir), "status") THEN MetaOf(tree, dir).status ELSE <<>>

ParentRefs ==
    {ContextRef(ROOT, ROOT_ID)}
    \cup {ContextRef(type, id) : type \in {BRANCH, SUMMARY, <<"l","e","a","f">>},
                                id \in SnapshotIds \cup {<<"z">>}}

\* C4: on any working copy, resolve_parent fails for a parent reference
\* whose context has status archived, and for a branch reference whose
\* branch has a status other than active; when it returns a directory, the
\* directory holds a context of the reference, its status is not archived
\* and, for a branch, it is active and in the active branch area.
C4_ResolveParent ==
    \A parent \in ParentRefs :
        LET resolved == resolve_parent(wc, parent)
            contexts == ContextsOf(wc, parent)
        IN  /\ (/\ contexts # {}
                /\ \A dir \in contexts : StatusOf(wc, dir) = ARCHIVED)
               => resolved.err # OK
            /\ (/\ parent.type = BRANCH
                /\ contexts # {}
                /\ \A dir \in contexts : StatusOf(wc, dir) # ACTIVE)
               => resolved.err # OK
            /\ resolved.err = OK
               => /\ resolved.path \in contexts
                  /\ StatusOf(wc, resolved.path) # ARCHIVED
                  /\ parent.type = BRANCH
                     => /\ resolved.path = branch_dir(parent.id)
                        /\ StatusOf(wc, resolved.path) = ACTIVE

\* `branch new` has created a branch under root, in a working copy that
\* holds a summary with status archived, which resolve_parent rejects, while
\* it returns the directory of the new branch.
C4_Witness ==
    \E id \in SnapshotIds :
        /\ last = Result("branch new", ROOT, OK, id)
        /\ summary_dir(id) \in ContextsOf(wc, ContextRef(SUMMARY, id))
        /\ StatusOf(wc, summary_dir(id)) = ARCHIVED
        /\ resolve_parent(wc, ContextRef(SUMMARY, id)).err = "Parent is archived"
        /\ resolve_parent(wc, ContextRef(BRANCH, id))
               = [err |-> OK, path |-> branch_dir(id)]

RootContent(tree) == tree[content_path(root_dir)].text

\* The ids of the contexts of a list.
IdsOf(contexts) == {contexts[i].id : i \in DOMAIN contexts}

\* The state the scenario of C5 ends in: init, a branch b under root, a
\* summary s under b, and the merge of s, which is the last command; no
\* other context was created.
ScenarioMerged(b, s) ==
    /\ last = Result("canon merge", s, OK, s)
    /\ ContextDirs(wc) = {branch_dir(b), canon_dir(s)}
    /\ MetaOf(wc, branch_dir(b)).parent = [type |-> ROOT, id |-> ROOT_ID]
    /\ MetaOf(wc, canon_dir(s)).parent = [type |-> BRANCH, id |-> b]

\* C5: at the end of the scenario the list of canonical summaries observed
\* at HEAD has exactly one entry, with the summary's id and the branch's id
\* as parent.id, and the branch is observed active, in the active branch
\* area.
C5_ScenarioObserved ==
    \A b \in Ids, s \in Ids :
        ScenarioMerged(b, s)
            => LET observed == collect_contexts(head)
                   canon == filter_contexts(observed.contexts, SUMMARY, "True")
                   branch == find_context(observed.contexts, b, BRANCH, "None")
               IN  /\ observed.err = OK
                   /\ Len(canon) = 1
                   /\ canon[1].id = s
                   /\ canon[1].parent.id = b
                   /\ branch.err = OK
                   /\ branch.context.status = ACTIVE
                   /\ branch.context.location = branch_dir(b)

C5_Witness == \E b \in Ids, s \in Ids : ScenarioMerged(b, s)

\* The canon blocks of root's content, in order: the summary id and the
\* source branch id each names (the empty string when it names none).
CanonBlocks(content) ==
    LET lines == Split(content, "\n")
        title == <<"#","#"," ","C","a","n","o","n"," ","U","p","d","a","t","e",":"," ">>
        summary == <<"-"," ","S","u","m","m","a","r","y",":"," ">>
        source == <<"-"," ","S","o","u","r","c","e"," ","b","r","a","n","c","h",
                    ":"," ">>
        after(line, prefix) == SubSeq(line, Len(prefix) + 1, Len(line))
        starts == SelectSeq([i \in DOMAIN lines |-> i],
                            LAMBDA i : StartsWith(lines[i], title))
    IN  [k \in DOMAIN starts |->
            [summary |-> after(lines[starts[k] + 1], summary),
             branch |-> IF StartsWith(lines[starts[k] + 3], source)
                        THEN after(lines[starts[k] + 3], source)
                        ELSE <<>>]]

\* C6, as claimed: after N successful canon merges root's content holds
\* exactly N canon blocks, in the order of the merges, the k-th naming the
\* k-th merged summary and its source branch.
C6_Claimed == root_exists(wc) => CanonBlocks(RootContent(wc)) = merges

IsPrefix(s, t) == Len(s) <= Len(t) /\ SubSeq(t, 1, Len(s)) = s

\* C7, as claimed: root's content is an append-only log.  In every step the
\* content root had is a prefix of the content it has, and a step that is
\* no successful canon merge leaves it as it is.
C7_Claimed ==
    [][root_exists(wc)
          => /\ root_exists(wc')
             /\ IsPrefix(RootContent(wc), RootContent(wc'))
             /\ merges' = merges => RootContent(wc') = RootContent(wc)
      ]_vars

\* C8: a step that is a successful canon merge of summary s.  Observed at
\* HEAD, s is not among the non-canonical summaries, it is among the
\* canonical ones, and its content is the content the summary had before
\* the merge.
C8_MergedSummaryObserved ==
    [][merges' # merges
          => LET s == merges'[Len(merges')].summary
                 observed == collect_contexts(head')
                 active == filter_contexts(observed.contexts, SUMMARY, "False")
                 canon == filter_contexts(observed.contexts, SUMMARY, "True")
                 found == find_context(observed.contexts, s, SUMMARY, "True")
             IN  /\ observed.err = OK
                 /\ s \notin IdsOf(active)
                 /\ s \in IdsOf(canon)
                 /\ found.err = OK
                 /\ found.context.location = canon_dir(s)
                 /\ git_show(head', found.context.content_path)
                        = wc[content_path(summary_dir(s))]
      ]_vars

\* A second summary was merged after the first.
C8_Witness ==
    /\ Len(merges) = 2
    /\ last.cmd = "canon merge" /\ last.err = OK
    /\ Exists(head, canon_dir(last.id))

BrokenAt(tree, loc) ==
    /\ meta_path(loc.dir) \in DOMAIN tree
    /\ \/ tree[meta_path(loc.dir)].json # "object"
       \/ ~Has(MetaOf(tree, loc.dir), "id")
       \/ MetaOf(tree, loc.dir).id # loc.id
       \/ ~Has(MetaOf(tree, loc.dir), "type")
       \/ MetaOf(tree, loc.dir).type # loc.type
       \/ ~Has(MetaOf(tree, loc.dir), "status")
       \/ content_path(loc.dir) \notin DOMAIN tree

\* C10: when one context of the snapshot is broken, collect_contexts fails,
\* and no observe command prints a payload, whatever else the snapshot
\* holds.
C10_NoPartialGraph ==
    \A loc \in Locations :
        BrokenAt(head, loc)
            => /\ collect_contexts(head).err # OK
               /\ out.err # OK

\* An observe command has failed on a snapshot that holds two sound
\* contexts and one without its content file.
C10_Witness ==
    \E loc \in Locations :
        /\ BrokenAt(head, loc)
        /\ Cardinality({l \in Locations :
                           /\ meta_path(l.dir) \in DOMAIN head
                           /\ ~BrokenAt(head, l)}) >= 2
        /\ out = Failed("Missing content.md")

\* A directory at a recognised location lacks its metadata file or its
\* content file.
Incomplete(tree, loc) ==
    /\ Exists(tree, loc.dir)
    /\ \/ meta_path(loc.dir) \notin DOMAIN tree
       \/ content_path(loc.dir) \notin DOMAIN tree

\* C11, as claimed: when a directory at a recognised location lacks its
\* metadata file or its content file, collect_contexts fails, and an
\* observe command that was run has printed no payload.
C11_Claimed ==
    \A loc \in Locations :
        Incomplete(head, loc) /\ out # NoOutput
            => collect_contexts(head).err # OK /\ out.err # OK

\* C12: every context of type summary in the working copy, in the active
\* summary area or in the canon area, that has a parent has a parent of type
\* branch.
C12_SummaryUnderBranch ==
    \A p \in MetaPaths(wc) :
        /\ \/ InArea(p, SUMMARY_DIRNAME)
           \/ InArea(p, CANON_DIRNAME)
           \/ wc[p].obj.type = SUMMARY
        /\ Has(wc[p].obj, "parent")
        => wc[p].obj.parent.type = BRANCH

\* A merged summary and an active one, each with a parent.
C12_Witness ==
    \E s \in Ids, t \in Ids :
        /\ meta_path(canon_dir(s)) \in DOMAIN wc
        /\ Has(MetaOf(wc, canon_dir(s)), "parent")
        /\ meta_path(summary_dir(t)) \in DOMAIN wc
        /\ Has(MetaOf(wc, summary_dir(t)), "parent")

\* The active branch area holds a branch with this id whose status is
\* active.
ActiveBranch(tree, b) ==
    /\ branch_dir(b) \in ContextsOf(tree, ContextRef(BRANCH, b))
    /\ StatusOf(tree, branch_dir(b)) = ACTIVE

ActiveSummary(tree, s) ==
    /\ summary_dir(s) \in ContextsOf(tree, ContextRef(SUMMARY, s))
    /\ StatusOf(tree, summary_dir(s)) = ACTIVE

\* The errors of `canon merge` the spec calls PreconditionFailed.
PreconditionFailed ==
    {"summary not found or already merged", "summary is not active"}

\* C14: `canon merge` of a summary that is not active (merged, never
\* created, or of another status) fails and changes nothing, with a
\* precondition error once the repository and root exist.  One summary
\* contributes at most one block: a step that changes root's content appends
\* exactly one block, which names a summary that was active before the step
\* and is not active after it, and a summary directory that is not active
\* stays, and stays not active.
C14_MergeOnce ==
    [][/\ \A s \in Ids :
              ~ActiveSummary(wc, s)
                  => /\ canon_merge(s).err # OK
                     /\ canon_merge(s).tree = wc
                     /\ repo /\ root_exists(wc)
                        => canon_merge(s).err \in PreconditionFailed
       /\ root_exists(wc) /\ RootContent(wc') # RootContent(wc)
          => \E s \in Ids :
                /\ ActiveSummary(wc, s)
                /\ ~ActiveSummary(wc', s)
                /\ CanonBlocks(RootContent(wc'))
                       = Append(CanonBlocks(RootContent(wc)),
                                [summary |-> s,
                                 branch |-> MetaOf(wc, summary_dir(s)).parent.id])
       /\ \A s \in Ids :
              Exists(wc, summary_dir(s)) /\ ~ActiveSummary(wc, s)
                  => Exists(wc', summary_dir(s)) /\ ~ActiveSummary(wc', s)
      ]_vars

\* Two summaries of one id have each given root one block: the first was
\* merged, the merge of the second failed at its move and left it in the
\* active area with status canonical, where a further merge is refused.
C14_Witness ==
    \E s \in Ids :
        /\ Exists(wc, canon_dir(s))
        /\ Exists(wc, summary_dir(s))
        /\ ~ActiveSummary(wc, s)
        /\ canon_merge(s).err = "summary is not active"
        /\ Len(CanonBlocks(RootContent(wc))) = 2

\* C15, as claimed: a `branch archive` of an active branch b that changes
\* the working copy ends OK, with b gone from the active branch area and in
\* the archive area with status archived, an archived_at timestamp and its
\* content, and every file outside b's directory as it was; `branch archive`
\* of a branch that is archived fails and changes nothing.
C15_Claimed ==
    [][/\ \A b \in Ids :
              /\ ActiveBranch(wc, b)
              /\ wc' # wc
              /\ last'.cmd = "branch archive" /\ last'.arg = b
              => /\ last'.err = OK
                 /\ ~Exists(wc', branch_dir(b))
                 /\ MetaOf(wc', archive_branch_dir(b))
                        = Put(Put(MetaOf(wc, branch_dir(b)), "status", ARCHIVED),
                              "archived_at", now_iso(now))
                 /\ wc'[content_path(archive_branch_dir(b))]
                        = wc[content_path(branch_dir(b))]
                 /\ \A p \in DOMAIN wc :
                        ~StartsWith(p, branch_dir(b) \o <<"/">>)
                            => p \in DOMAIN wc' /\ wc'[p] = wc[p]
       /\ \A b \in Ids :
              /\ ~ActiveBranch(wc, b)
              /\ \/ Exists(wc, archive_branch_dir(b))
                 \/ Exists(wc, branch_dir(b))
              => /\ branch_archive(b).err # OK
                 /\ branch_archive(b).tree = wc
      ]_vars

\* What the observe commands of NextHistory print in the current state.
HistoryOutputs ==
    {observe_get(id, <<>>, FALSE, FALSE, meta_only) :
        id \in SnapshotIds \cup {ROOT_ID}, meta_only \in BOOLEAN}
    \cup {observe_list(type, canonical, FALSE) :
             type \in {<<>>, SUMMARY}, canonical \in BOOLEAN}
    \cup {observe_children(parent) : parent \in ParentArgs}

\* The entries of a printed payload: those of an index, or the one entry
\* of an observation.
Entries(payload) ==
    IF "contexts" \in DOMAIN payload
    THEN {payload.contexts[i] : i \in DOMAIN payload.contexts}
    ELSE {payload.context}

\* C16: observation reads history.  What an observe command has printed is
\* what the observe commands print at the same HEAD whatever has become of
\* the working copy since (memory/ may have been deleted), and the status of
\* every entry printed is the status stored at HEAD, whatever an uncommitted
\* change has made of it in the working copy.
C16_ReadsHistory ==
    out # NoOutput
        => /\ out \in HistoryOutputs
           /\ out.err = OK
              => \A entry \in Entries(out.payload) :
                     entry.status = MetaOf(head, entry.location).status

\* A payload of two entries or more was printed after a command had failed
\* at its move and left the working copy ahead of HEAD, and memory/ has been
\* deleted from the working copy.
C16_Witness ==
    /\ wc = NoFiles
    /\ last.err = "Destination already exists"
    /\ out.err = OK
    /\ Cardinality(Entries(out.payload)) >= 2

\* C17: the observer is read-only.  A step that leaves a new output, which
\* the observe commands alone do, leaves the working copy, HEAD and the
\* repository as they are.
C17_ReadOnly ==
    [][out' # out /\ out' # NoOutput
          => wc' = wc /\ head' = head /\ repo' = repo]_vars

\* An observe command has printed a payload beside a working copy that a
\* failed command left ahead of HEAD.
C17_Witness ==
    /\ last.err = "Destination already exists"
    /\ wc # head /\ wc # NoFiles
    /\ out.err = OK

Reverse(seq) == [i \in DOMAIN seq |-> seq[Len(seq) + 1 - i]]

\* The sequence from its k-th element on, followed by the elements before.
Rotate(seq, k) == SubSeq(seq, k, Len(seq)) \o SubSeq(seq, 1, k - 1)

\* Other orders a listing of the same paths may come in.
Reorderings(paths) ==
    {Reverse(paths)} \cup {Rotate(paths, k) : k \in DOMAIN paths}

\* The locations of a list are in ascending order, none twice.
AscendingLocations(contexts) ==
    \A i \in DOMAIN contexts, j \in DOMAIN contexts :
        i < j => StrLess(contexts[i].location, contexts[j].location)

\* C18: the list collect_contexts returns is in ascending order of location,
\* and it is the list collect_contexts returns when the listing of the
\* snapshot gives the same paths in another order (which fails when, and
\* only when, collect_contexts fails); an index an observe command has
\* printed is in that order.
C18_Deterministic ==
    LET paths == git_list_tree(head, MEMORY_DIRNAME)
        observed == collect_contexts(head)
    IN  /\ observed.err = OK => AscendingLocations(observed.contexts)
        /\ \A other \in Reorderings(paths) :
               /\ Listed(head, other).err = OK <=> observed.err = OK
               /\ observed.err = OK => Listed(head, other) = observed
        /\ (out.err = OK /\ "contexts" \in DOMAIN out.payload)
           => AscendingLocations(out.payload.contexts)

\* An index of three contexts or more was printed, of a snapshot whose
\* listing, read backwards, gives the loop of collect_contexts the contexts
\* in another order than the one returned.
C18_Witness ==
    LET paths == Reverse(git_list_tree(head, MEMORY_DIRNAME))
        found == ObserveAll(head, Range(paths),
                            SelectSeq(paths,
                                      LAMBDA p : EndsWith(p, <<"/">> \o META_JSON)))
    IN  /\ out.err = OK
        /\ "contexts" \in DOMAIN out.payload
        /\ Len(out.payload.contexts) >= 3
        /\ found.err = OK
        /\ found.contexts # collect_contexts(head).contexts

\* The positions of the contexts of a list that have the id, the type when
\* one is given (the empty string when not) and the canonical flag when one
\* is given ("None" when not).
Matching(contexts, id, type, canonical) ==
    {i \in DOMAIN contexts :
        /\ contexts[i].id = id
        /\ type # <<>> => contexts[i].type = type
        /\ canonical = "True" => contexts[i].canonical
        /\ canonical = "False" => ~contexts[i].canonical}

\* C19: on the contexts of any snapshot, find_context fails with 'Context
\* not found' when no context matches the id and the filters given, with
\* 'Multiple contexts match' when more than one does, and returns the
\* matching context when there is one.
C19_FindContext ==
    LET observed == collect_contexts(head)
    IN  observed.err = OK
        => \A id \in SnapshotIds \cup {ROOT_ID, <<"z">>}, type \in TypeArgs,
              canonical \in {"None", "True", "False"} :
               LET found == find_context(observed.contexts, id, type, canonical)
                   matches == Matching(observed.contexts, id, type, canonical)
               IN  /\ matches = {} => found = [err |-> "Context not found"]
                   /\ Cardinality(matches) > 1
                      => found = [err |-> "Multiple contexts match"]
                   /\ Cardinality(matches) = 1
                      => \E i \in matches :
                            found = [err |-> OK, context |-> observed.contexts[i]]

\* `observe get` has failed with the ambiguity error on a snapshot that
\* holds one id in two kinds and in both canonical states, where the type
\* and the canonical flag together single a context out.
C19_Witness ==
    \E id \in SnapshotIds :
        LET contexts == collect_contexts(head).contexts
        IN  /\ out = Failed("Multiple contexts match")
            /\ Cardinality(Matching(contexts, id, BRANCH, "None")) >= 1
            /\ Cardinality(Matching(contexts, id, SUMMARY, "None")) = 2
            /\ find_context(contexts, id, SUMMARY, "True").err = OK
            /\ find_context(contexts, <<"z">>, <<>>, "None").err
                   = "Context not found"

\* C20: on the contexts of any snapshot, children_of returns contexts of
\* the list whose stored parent has the type and the id of the reference,
\* every such context of the list, and in the order of the list (ascending
\* locations, none twice); a context without a parent is not among them.
C20_ChildrenOf ==
    LET observed == collect_contexts(head)
    IN  observed.err = OK
        => \A parent \in ParentRefs :
               LET children == children_of(observed.contexts, parent)
               IN  /\ \A i \in DOMAIN children :
                          /\ children[i] \in Range(observed.contexts)
                          /\ children[i].parent # None
                          /\ children[i].parent.type = parent.type
                          /\ children[i].parent.id = parent.id
                   /\ \A j \in DOMAIN observed.contexts :
                          /\ observed.contexts[j].parent # None
                          /\ observed.contexts[j].parent.type = parent.type
                          /\ observed.contexts[j].parent.id = parent.id
                          => observed.contexts[j] \in Range(children)
                   /\ AscendingLocations(children)

\* `observe children` of a branch has printed its two summaries, the merged
\* one and the active one, on a snapshot that holds root, which has no
\* parent.
C20_Witness ==
    \E id \in SnapshotIds :
        /\ out.err = OK
        /\ "contexts" \in DOMAIN out.payload
        /\ Len(out.payload.contexts) = 2
        /\ out.payload.contexts[1].location = canon_dir(id)
        /\ out.payload.contexts[2].location = summary_dir(id)
        /\ \A i \in 1..2 :
               out.payload.contexts[i].parent = [type |-> BRANCH, id |-> id]
        /\ meta_path(root_dir) \in DOMAIN head

\* The directories the commands create contexts in, at the present second.
CreatedDirs ==
    {root_dir}
    \cup {branch_dir(make_id(title, now)) : title \in Titles}
    \cup {summary_dir(make_id(title, now)) : title \in Titles}

\* C21, as claimed: create_context on a directory that exists fails with an
\* error main reports (a CGraphError) and leaves the tree as it is, and on a
\* directory that does not exist it adds the metadata file and the content
\* file and nothing else; no `branch new` or `summary new` ends with an
\* exception main does not catch.
C21_Claimed ==
    /\ \A dir \in CreatedDirs :
           LET meta == [id |-> <<"z">>]
               made == create_context(wc, dir, meta, <<"z">>)
           IN  IF Exists(wc, dir)
               THEN /\ made.err # OK
                    /\ made.err \notin Uncaught
                    /\ made.tree = wc
               ELSE /\ made.err = OK
                    /\ DOMAIN made.tree
                           = DOMAIN wc \cup {meta_path(dir), content_path(dir)}
                    /\ made.tree[meta_path(dir)] = JsonFile(meta)
                    /\ made.tree[content_path(dir)] = TextFile(<<"z">>)
                    /\ \A p \in DOMAIN wc : made.tree[p] = wc[p]
    /\ \A title \in Titles, from \in FromArgs :
           branch_new(title, from).err \notin Uncaught
    /\ \A title \in Titles, branch \in Ids :
           summary_new(title, branch).err \notin Uncaught

\* The files of a tree under a directory.
Under(tree, dir) == {p \in DOMAIN tree : StartsWith(p, dir \o <<"/">>)}

\* The moves the commands make: a summary to memory/canon, a branch to
\* memory/archive/branch.
MovePairs ==
    {<<summary_dir(id), canon_dir(id)>> : id \in Ids \ {ROOT_ID}}
    \cup {<<branch_dir(id), archive_branch_dir(id)>> : id \in Ids \ {ROOT_ID}}

\* C22: move_dir of a context directory to a destination that exists fails
\* with 'Destination already exists' and changes no file, of the source or of
\* the destination; to a free destination it succeeds, after it the source
\* does not exist, the destination holds exactly the files the source held,
\* each with its content, and every other file is as it was.  The move is one
\* step: the context is at the source before it and at the destination after.
C22_MoveDir ==
    \A pair \in MovePairs :
        LET src == pair[1]
            dst == pair[2]
            moved == move_dir(wc, src, dst)
            to(p) == dst \o SubSeq(p, Len(src) + 1, Len(p))
        IN  Exists(wc, src) =>
                IF Exists(wc, dst)
                THEN /\ moved.err = "Destination already exists"
                     /\ moved.tree = wc
                ELSE /\ moved.err = OK
                     /\ ~Exists(moved.tree, src)
                     /\ Under(moved.tree, src) = {}
                     /\ Under(moved.tree, dst) = {to(p) : p \in Under(wc, src)}
                     /\ \A p \in Under(wc, src) : moved.tree[to(p)] = wc[p]
                     /\ DOMAIN moved.tree \ Under(moved.tree, dst)
                            = DOMAIN wc \ Under(wc, src)
                     /\ \A p \in DOMAIN wc \ Under(wc, src) :
                            moved.tree[p] = wc[p]

\* A merge has moved a summary, a directory stands whose destination is
\* taken, and another whose destination is free.
C22_Witness ==
    /\ merges # << >>
    /\ \E pair \in MovePairs : Exists(wc, pair[1]) /\ Exists(wc, pair[2])
    /\ \E pair \in MovePairs : Exists(wc, pair[1]) /\ ~Exists(wc, pair[2])

\* The five patterns of a context directory, on the parts of a path.
RecognisedDir(parts) ==
    \/ parts = <<MEMORY_DIRNAME, ROOT_DIRNAME, ROOT_ID>>
    \/ /\ Len(parts) = 3
       /\ parts[1] = MEMORY_DIRNAME
       /\ parts[2] \in {BRANCH_DIRNAME, SUMMARY_DIRNAME, CANON_DIRNAME}
    \/ /\ Len(parts) = 4
       /\ SubSeq(parts, 1, 3)
              = <<MEMORY_DIRNAME, ARCHIVE_DIRNAME, BRANCH_DIRNAME>>

\* The file name is a file of directory dir.
FileOf(path, names) ==
    LET parts == Split(path, "/")
    IN  /\ Len(parts) > 1
        /\ parts[Len(parts)] \in names
        /\ RecognisedDir(SubSeq(parts, 1, Len(parts) - 1))

\* The metadata files at recognised context locations.
RecognisedMeta(tree) == {p \in DOMAIN tree : FileOf(p, {META_JSON})}

\* The snapshot without the files that are no metadata file and no content
\* file of a recognised context location.
Tidy(tree) ==
    [p \in {q \in DOMAIN tree : FileOf(q, {META_JSON, CONTENT_MD})} |-> tree[p]]

\* What C23 asks of an observation of a tree.
EmptySnapshotRule(tree, observed) ==
    /\ RecognisedMeta(tree) = {}
           => observed = [err |-> "No context metadata found"]
    /\ observed.err = OK => observed.contexts # << >>

\* C23: on a snapshot with no metadata file at a recognised context location
\* (no file at all, content files alone, stray files alone) collect_contexts
\* fails with 'No context metadata found'; it never returns an empty list; and
\* the observe commands then print nothing and report that error.
C23_EmptySnapshot ==
    /\ EmptySnapshotRule(head, collect_contexts(head))
    /\ out # NoOutput /\ RecognisedMeta(head) = {}
           => out = Failed("No context metadata found")

\* An observe command has failed on a snapshot that holds stray files and
\* no metadata file at a recognised location.
C23_Witness ==
    /\ head # NoFiles
    /\ RecognisedMeta(head) = {}
    /\ \E p \in DOMAIN head : EndsWith(p, <<"/">> \o META_JSON)
    /\ out = Failed("No context metadata found")

\* C24: the files of a snapshot that are no metadata file and no content
\* file of one of the five context locations change nothing: the snapshot
\* and the snapshot without them give the same list of contexts, or the same
\* error.
C24_StraysIgnored == collect_contexts(head) = collect_contexts(Tidy(head))

\* A snapshot with contexts and with stray files has been listed.
C24_Witness ==
    /\ Tidy(head) # head
    /\ RecognisedMeta(head) # {}
    /\ out # NoOutput
    /\ out.err = OK

\* C25, as claimed: a command that ends in an error leaves the working copy
\* as it was; a step that changes the working copy is a command that ended
\* without error.
C25_Claimed == [][wc' # wc => last'.err = OK]_vars

\* The status the commands give a context in the directory of path p.
AreaStatus(p) ==
    IF InArea(p, ARCHIVE_DIRNAME) THEN ARCHIVED
    ELSE IF InArea(p, CANON_DIRNAME) \/ InArea(p, ROOT_DIRNAME) THEN CANONICAL
    ELSE ACTIVE

\* C26, as claimed: in every reachable working copy the status stored in a
\* context's metadata is that of the area which holds the context: active
\* under memory/branch and memory/summary, archived under
\* memory/archive/branch, canonical under memory/canon and for root.
C26_Claimed == \A p \in MetaPaths(wc) : wc[p].obj.status = AreaStatus(p)

\* C27, as claimed: a canon merge that succeeds is of a summary whose source
\* branch is in the active branch area, and is never of a summary whose
\* source branch has been archived.
C27_Claimed ==
    [][merges' # merges
          => LET b == merges'[Len(merges')].branch
             IN  /\ Exists(wc, branch_dir(b))
                 /\ ~Exists(wc, archive_branch_dir(b))]_vars

\* The tree committed at HEAD is the working copy, and the observer finds at
\* HEAD the contexts of the working copy: one for each context directory, with
\* the metadata, status, parent and content the working copy holds there.
CaughtUp(committed, tree, observed) ==
    /\ committed = tree
    /\ observed.err = OK
    /\ Len(observed.contexts) = Cardinality(ContextDirs(tree)) + 1
    /\ {observed.contexts[i].location : i \in DOMAIN observed.contexts}
           = ContextDirs(tree) \cup {root_dir}
    /\ \A i \in DOMAIN observed.contexts :
           LET context == observed.contexts[i]
               meta == MetaOf(tree, context.location)
           IN  /\ context.meta = meta
               /\ context.status = meta.status
               /\ context.parent
                      = (IF Has(meta, "parent") THEN meta.parent ELSE None)
               /\ git_show(committed, context.content_path)
                      = tree[content_path(context.location)]

\* C28: whenever the last command that wrote to the working copy ended
\* without error, HEAD has caught up with the working copy (until memory/ is
\* deleted from it).  Such a command has created a commit when what it left
\* differs from the tree HEAD had, and none when it left what HEAD already
\* held; a command that writes nothing creates no commit and leaves HEAD as
\* it is.
C28_Checkpoint ==
    /\ [](last.cmd # "none" /\ last.err = OK /\ wc # NoFiles
             => CaughtUp(head, wc, collect_contexts(head)))
    /\ [][/\ wc' # wc /\ wc' # NoFiles /\ last'.err = OK
             => /\ head' = wc'
                /\ checkpoint' = (wc' # head)
                /\ checkpoint' = (head' # head)
          /\ wc' = wc => head' = head /\ checkpoint' = checkpoint
         ]_vars

\* `init` has written again what HEAD holds, after memory/ was deleted: it
\* ended without error and without a commit.
C28_Witness ==
    /\ last.cmd = "init"
    /\ last.err = OK
    /\ ~checkpoint
    /\ wc # NoFiles
    /\ head = wc

====
